---- MODULE Spec2Model ----
(***************************************************************************)
(* DMA mappings (include/ipxe/dma.h).                                      *)
(*                                                                         *)
(* The model covers struct dma_device, struct dma_mapping, the inlined     *)
(* "flat" implementation of the DMA API (dma_map, dma_unmap, dma_alloc,    *)
(* dma_free, dma_set_mask), dma_init and dma_set_mask_64bit.  A driver     *)
(* owns NumMaps mapping records and calls the API in any order, including  *)
(* orders that release a record that is not outstanding.  It fills only a  *)
(* record that holds nothing (a record is created by dma_map/dma_alloc and *)
(* destroyed by the matching dma_unmap/dma_free).                          *)
(*                                                                         *)
(* malloc_phys, free_phys and virt_to_phys are declared in headers that    *)
(* dma.h includes; they are modelled here by their contract.  The          *)
(* operations-table path (the non-inline dma_map ... dma_set_mask, only    *)
(* declared in dma.h) is modelled from the design text.                    *)
(***************************************************************************)
EXTENDS Integers, FiniteSets, TLC

(* ------------------------------ bounds -------------------------------- *)

\* Width of physaddr_t in the model (32 or 64 in the build).
AddrBits == 3
\* Width of unsigned int in the model (32 in the build).
UIntBits == 3
\* Number of struct dma_mapping records the driver owns.
NumMaps == 2
\* Number of allocation units the physical-memory allocator manages.
HeapSize == 2
\* Most dma_unmap/dma_free calls of a run that release a record which holds
\* no mapping (no buffer).
MaxMisuse == 1

(* ----------------------------- constants ------------------------------ *)

NULL == 0
DMA_TX == 1
DMA_RX == 2

RECURSIVE Pow2(_)
Pow2(n) == IF n = 0 THEN 1 ELSE 2 * Pow2(n - 1)

RECURSIVE BitAnd(_, _)
BitAnd(a, b) ==
  IF a = 0 \/ b = 0 THEN 0
  ELSE (a % 2) * (b % 2) + 2 * BitAnd(a \div 2, b \div 2)

RECURSIVE BitOr(_, _)
BitOr(a, b) ==
  IF a = 0 /\ b = 0 THEN 0
  ELSE (IF a % 2 = 1 \/ b % 2 = 1 THEN 1 ELSE 0) + 2 * BitOr(a \div 2, b \div 2)

DMA_BI == BitOr(DMA_TX, DMA_RX)

\* physaddr_t: unsigned, AddrBits wide
PhysMod == Pow2(AddrBits)
PhysAddr == 0 .. (PhysMod - 1)
\* ~x on a physaddr_t
PhysNot(x) == (PhysMod - 1) - x

\* unsigned int: arithmetic is modulo 2^UIntBits
UIntMod == Pow2(UIntBits)
UInt == 0 .. (UIntMod - 1)
UIntInc(x) == (x + 1) % UIntMod
UIntDec(x) == (x + UIntMod - 1) % UIntMod

Maps == 1 .. NumMaps
\* Buffer (virtual) addresses the allocator can hand out; NULL is none of them
HeapAddr == 1 .. HeapSize
Lens == {1, 2}
Aligns == {1, 2}
Flags == {DMA_TX, DMA_RX, DMA_BI}
\* The op field before dma_init (a null pointer)
NoTable == "NULL"
\* Operations tables a driver can pass to dma_init: the table of a backend
\* that performs no translation
OpTables == {"notrans_ops"}
\* Addressable space masks a device context holds: none set, a narrow device
Masks == {0, PhysMod \div 2 - 1}
\* Buffer addresses a driver passes to dma_map
MapAddrs == {2, PhysMod - 1}

(* ------------------------ external collaborators ---------------------- *)

\* Offset between a virtual address and its physical address
VirtOffset == 2

virt_to_phys(v) == (v + VirtOffset) % PhysMod

Range(addr, len) == addr .. (addr + len - 1)

\* The results malloc_phys may return with the free units hp: the start of any
\* free block of len units whose physical address is a multiple of align, or
\* NULL when there is none.
malloc_phys(hp, len, align) ==
  LET fits == {v \in HeapAddr : /\ Range(v, len) \subseteq hp
                                /\ virt_to_phys(v) % align = 0}
  IN  IF fits = {} THEN {NULL} ELSE fits

\* The free units after malloc_phys returned addr
malloc_take(hp, addr, len) ==
  IF addr = NULL THEN hp ELSE hp \ Range(addr, len)

\* The free units after free_phys ( addr, len ); free_phys ignores NULL
free_phys(hp, addr, len) ==
  IF addr = NULL THEN hp ELSE hp \cup (Range(addr, len) \cap HeapAddr)

(* --------------------------- flat DMA API ----------------------------- *)

\* Each operator takes the build's DBG_LOG, the objects the C function is
\* given, and returns the objects as the function leaves them together with
\* its return value.

(* Variants of the functions below, each with one plausible slip; the      *)
(* properties at the end of the module are required to tell them apart.    *)

\* dma_map that refuses an address beyond the device's mask
flat_dma_map_ranged(dbg, d, addr, len, flags, map) ==
  IF BitAnd(addr, PhysNot(d.mask)) # 0
  THEN [ dma |-> d, map |-> map, rc |-> -1 ]
  ELSE [ dma |-> [d EXCEPT !.mapped = IF dbg THEN UIntInc(@) ELSE @],
         map |-> [map EXCEPT !.addr = addr],
         rc  |-> 0 ]

\* dma_map that converts the (already physical) address once more
flat_dma_map_twice(dbg, d, addr, len, flags, map) ==
  [ dma |-> [d EXCEPT !.mapped = IF dbg THEN UIntInc(@) ELSE @],
    map |-> [map EXCEPT !.addr = virt_to_phys(addr)],
    rc  |-> 0 ]

\* dma_unmap that forgets the mapping count
flat_dma_unmap_nocount(dbg, d, map) == [ dma |-> d, map |-> map ]

\* dma_alloc that counts an allocation even when malloc_phys failed
flat_dma_alloc_counts_null(dbg, d, hp, len, align, map, addr) ==
  [ dma  |-> [d EXCEPT !.allocated = IF dbg THEN UIntInc(@) ELSE @],
    heap |-> malloc_take(hp, addr, len),
    map  |-> [map EXCEPT !.addr = virt_to_phys(addr)],
    ret  |-> addr ]

\* dma_alloc that refuses once the allocation count is non-zero
flat_dma_alloc_gated(dbg, d, hp, len, align, map, addr) ==
  IF d.allocated # 0
  THEN [ dma |-> d, heap |-> hp,
         map |-> [map EXCEPT !.addr = virt_to_phys(NULL)], ret |-> NULL ]
  ELSE [ dma  |-> [d EXCEPT !.allocated =
                              IF dbg /\ addr # NULL THEN UIntInc(@) ELSE @],
         heap |-> malloc_take(hp, addr, len),
         map  |-> [map EXCEPT !.addr = virt_to_phys(addr)],
         ret  |-> addr ]

\* dma_free that never hands the buffer back
flat_dma_free_leaks(dbg, d, hp, addr, len, map) ==
  [ dma  |-> [d EXCEPT !.allocated = IF dbg THEN UIntDec(@) ELSE @],
    heap |-> hp,
    map  |-> map ]

\* dma_set_mask that records the mask in the device
flat_dma_set_mask_stores(d, mask) == [d EXCEPT !.mask = mask]

\* dma_init that also clears the counters
dma_init_resets(d, op) ==
  [d EXCEPT !.op = op, !.mapped = 0, !.allocated = 0]

flat_dma_map(dbg, d, addr, len, flags, map) ==
  [ dma |-> [d EXCEPT !.mapped = IF dbg THEN UIntInc(@) ELSE @],
    map |-> [map EXCEPT !.addr = addr],
    rc  |-> 0 ]

flat_dma_unmap(dbg, d, map) ==
  [ dma |-> [d EXCEPT !.mapped = IF dbg THEN UIntDec(@) ELSE @],
    map |-> map ]

\* addr is the value malloc_phys ( len, align ) returned
flat_dma_alloc(dbg, d, hp, len, align, map, addr) ==
  [ dma  |-> [d EXCEPT !.allocated =
                         IF dbg /\ addr # NULL THEN UIntInc(@) ELSE @],
    heap |-> malloc_take(hp, addr, len),
    map  |-> [map EXCEPT !.addr = virt_to_phys(addr)],
    ret  |-> addr ]

flat_dma_free(dbg, d, hp, addr, len, map) ==
  [ dma  |-> [d EXCEPT !.allocated = IF dbg THEN UIntDec(@) ELSE @],
    heap |-> free_phys(hp, addr, len),
    map  |-> map ]

flat_dma_set_mask(d, mask) == d

dma_init(d, op) == [d EXCEPT !.op = op]

\* dma_set_mask ( dma, ~( ( physaddr_t ) 0 ) ) on the flat path
dma_set_mask_64bit(d) == flat_dma_set_mask(d, PhysNot(0))

(* ---------------------- operations-table DMA API ---------------------- *)

\* The entries of an operations table whose backend performs no translation:
\* the four-call contract of the flat operations, with nothing to reprogram
\* in set_mask.  A failed alloc produces no record.

notrans_map(dbg, d, addr, len, flags, map) ==
  [ dma |-> [d EXCEPT !.mapped = IF dbg THEN UIntInc(@) ELSE @],
    map |-> [addr |-> addr, token |-> NULL],
    rc  |-> 0 ]

notrans_unmap(dbg, d, map) ==
  [ dma |-> [d EXCEPT !.mapped = IF dbg THEN UIntDec(@) ELSE @],
    map |-> map ]

notrans_alloc(dbg, d, hp, len, align, map, addr) ==
  IF addr = NULL
  THEN [ dma |-> d, heap |-> hp, map |-> map, ret |-> NULL ]
  ELSE [ dma  |-> [d EXCEPT !.allocated = IF dbg THEN UIntInc(@) ELSE @],
         heap |-> malloc_take(hp, addr, len),
         map  |-> [addr |-> virt_to_phys(addr), token |-> NULL],
         ret  |-> addr ]

notrans_free(dbg, d, hp, addr, len, map) ==
  [ dma  |-> [d EXCEPT !.allocated = IF dbg THEN UIntDec(@) ELSE @],
    heap |-> free_phys(hp, addr, len),
    map  |-> map ]

notrans_set_mask(d, mask) == d

\* dma_map ... dma_set_mask on the operations-table path: each call is
\* forwarded to the entry of the table the device's op field refers to.

dma_op_map(dbg, d, addr, len, flags, map) ==
  CASE d.op \in OpTables -> notrans_map(dbg, d, addr, len, flags, map)

dma_op_unmap(dbg, d, map) ==
  CASE d.op \in OpTables -> notrans_unmap(dbg, d, map)

dma_op_alloc(dbg, d, hp, len, align, map, addr) ==
  CASE d.op \in OpTables -> notrans_alloc(dbg, d, hp, len, align, map, addr)

dma_op_free(dbg, d, hp, addr, len, map) ==
  CASE d.op \in OpTables -> notrans_free(dbg, d, hp, addr, len, map)

dma_op_set_mask(d, mask) ==
  CASE d.op \in OpTables -> notrans_set_mask(d, mask)

(* ------------------------------ state --------------------------------- *)

\* The build of the first device has debug accounting enabled
DBG_LOG == TRUE

VARIABLES
  dma,         \* struct dma_device: [op, mask, mapped, allocated]
  maps,        \* the driver's struct dma_mapping records: [addr, token]
  heap,        \* free units of the physical-memory allocator
  held,        \* per record, what the driver holds in it: [kind, addr, len]
  misuse,      \* dma_unmap/dma_free calls so far on a record not outstanding
  last,        \* the most recent call: [op, m, arg, ret, pre]
  dev2         \* a second device driven by the same calls (comparison runs)

vars == <<dma, maps, heap, held, misuse, last, dev2>>

\* A record holds nothing, a mapping, or a buffer (addr, len) from dma_alloc
Nothing == [kind |-> "none", addr |-> NULL, len |-> 0]
Mapping == [kind |-> "mapped", addr |-> NULL, len |-> 0]
Buffer(addr, len) == [kind |-> "alloc", addr |-> addr, len |-> len]

\* Successful dma_map (dma_alloc) calls not yet unmapped (freed)
Outstanding(k) == Cardinality({m \in Maps : held[m].kind = k})

\* A call as its caller sees it: the function, the record (0 when none is
\* recorded), an argument, the return value, and what the caller knew before
\* the call (pre):
\*   map             arg = address passed in, ret = status
\*   alloc           arg = what malloc_phys returned, ret = buffer address,
\*                   pre = the counters before and, on success, the request
\*   free            pre = RoundTrip(..) when it frees the buffer of the
\*                   dma_alloc called directly before, with the same length
\*   set_mask(_64bit) pre = device, records and free memory before
\*   init            arg = table passed in, pre = mask and counters before
NoPre == [rt |-> FALSE]
Call(op, m, arg, ret, pre) ==
  [op |-> op, m |-> m, arg |-> arg, ret |-> ret, pre |-> pre]
RoundTrip(alloc) ==
  [rt |-> TRUE, addr |-> alloc.ret, len |-> alloc.pre.len,
   align |-> alloc.pre.align, allocated |-> alloc.pre.allocated]

NoDev2 == [path |-> "none"]

\* A device as its driver allocates it: zeroed, but for the mask, which is
\* whatever the driver's device can address.
InitDev1 ==
  /\ dma \in [op : {NoTable}, mask : Masks, mapped : {0}, allocated : {0}]
  /\ maps = [m \in Maps |-> [addr |-> 0, token |-> NULL]]
  /\ heap = HeapAddr
  /\ held = [m \in Maps |-> Nothing]
  /\ misuse = 0
  /\ last = Call("none", 0, 0, 0, NoPre)

Init == InitDev1 /\ dev2 = NoDev2

(* ----------------------------- actions -------------------------------- *)

\* dma_map ( dma, addr, len, flags, &map[m] )
DmaMap(m, addr, len, flags) ==
  /\ held[m] = Nothing
  /\ LET r == flat_dma_map(DBG_LOG, dma, addr, len, flags, maps[m])
     IN  /\ dma' = r.dma
         /\ maps' = [maps EXCEPT ![m] = r.map]
         /\ held' = [held EXCEPT ![m] = IF r.rc = 0 THEN Mapping ELSE @]
         /\ last' = Call("map", m, addr, r.rc, NoPre)
  /\ UNCHANGED <<heap, misuse>>

\* dma_unmap ( dma, &map[m] )
DmaUnmap(m) ==
  /\ held[m].kind # "mapped" => misuse < MaxMisuse
  /\ LET r == flat_dma_unmap(DBG_LOG, dma, maps[m])
     IN  /\ dma' = r.dma
         /\ maps' = [maps EXCEPT ![m] = r.map]
  /\ IF held[m].kind = "mapped"
     THEN /\ held' = [held EXCEPT ![m] = Nothing]
          /\ misuse' = misuse
     ELSE /\ held' = held
          /\ misuse' = misuse + 1
  /\ last' = Call("unmap", 0, 0, 0, NoPre)
  /\ UNCHANGED heap

\* dma_alloc ( dma, len, align, &map[m] ), malloc_phys returning addr
DmaAlloc(m, len, align, addr) ==
  /\ held[m] = Nothing
  /\ addr \in malloc_phys(heap, len, align)
  /\ LET r == flat_dma_alloc(DBG_LOG, dma, heap, len, align, maps[m], addr)
     IN  /\ dma' = r.dma
         /\ heap' = r.heap
         /\ maps' = [maps EXCEPT ![m] = r.map]
         /\ held' = [held EXCEPT ![m] = IF r.ret # NULL
                                        THEN Buffer(r.ret, len) ELSE @]
         /\ last' = Call("alloc", m, addr, r.ret,
                         [rt |-> FALSE,
                          mapped |-> dma.mapped, allocated |-> dma.allocated,
                          len |-> IF r.ret # NULL THEN len ELSE 0,
                          align |-> IF r.ret # NULL THEN align ELSE 0])
  /\ UNCHANGED misuse

\* dma_free ( dma, addr, len, &map[m] ) with the buffer the record holds (NULL
\* when it holds none)
DmaFree(m) ==
  /\ held[m].kind # "alloc" => misuse < MaxMisuse
  /\ LET r == flat_dma_free(DBG_LOG, dma, heap, held[m].addr, held[m].len,
                            maps[m])
     IN  /\ dma' = r.dma
         /\ heap' = r.heap
         /\ maps' = [maps EXCEPT ![m] = r.map]
  /\ IF held[m].kind = "alloc"
     THEN /\ held' = [held EXCEPT ![m] = Nothing]
          /\ misuse' = misuse
     ELSE /\ held' = held
          /\ misuse' = misuse + 1
  /\ last' = Call("free", 0, 0, 0,
                  IF /\ last.op = "alloc" /\ last.ret # NULL /\ last.m = m
                     /\ held[m] = Buffer(last.ret, last.pre.len)
                  THEN RoundTrip(last) ELSE NoPre)

\* dma_set_mask ( dma, mask )
DmaSetMask(mask) ==
  /\ dma' = flat_dma_set_mask(dma, mask)
  /\ last' = Call("set_mask", 0, 0, 0,
                  [rt |-> FALSE, dma |-> dma, maps |-> maps, heap |-> heap])
  /\ UNCHANGED <<maps, heap, held, misuse>>

\* dma_set_mask_64bit ( dma )
DmaSetMask64bit ==
  /\ dma' = dma_set_mask_64bit(dma)
  /\ last' = Call("set_mask_64bit", 0, 0, 0,
                  [rt |-> FALSE, dma |-> dma, maps |-> maps, heap |-> heap])
  /\ UNCHANGED <<maps, heap, held, misuse>>

\* dma_init ( dma, op )
DmaInit(op) ==
  /\ dma' = dma_init(dma, op)
  /\ last' = Call("init", 0, op, 0,
                  [rt |-> FALSE, mask |-> dma.mask, mapped |-> dma.mapped,
                   allocated |-> dma.allocated])
  /\ UNCHANGED <<maps, heap, held, misuse>>

AllocAddrs == HeapAddr \cup {NULL}
\* Masks a driver passes to dma_set_mask: a narrow device, every address
SetMaskArgs == {PhysMod \div 2 - 1, PhysNot(0)}

Map == \E m \in Maps, addr \in MapAddrs, len \in Lens, flags \in Flags :
         DmaMap(m, addr, len, flags) /\ UNCHANGED dev2
Unmap == \E m \in Maps : DmaUnmap(m) /\ UNCHANGED dev2
Alloc == \E m \in Maps, len \in Lens, align \in Aligns, addr \in AllocAddrs :
           DmaAlloc(m, len, align, addr) /\ UNCHANGED dev2
Free == \E m \in Maps : DmaFree(m) /\ UNCHANGED dev2
SetMask == \E mask \in SetMaskArgs : DmaSetMask(mask) /\ UNCHANGED dev2
SetMask64bit == DmaSetMask64bit /\ UNCHANGED dev2
InitDev == \E op \in OpTables : DmaInit(op) /\ UNCHANGED dev2

Next == Map \/ Unmap \/ Alloc \/ Free \/ SetMask \/ SetMask64bit \/ InitDev

Spec == Init /\ [][Next]_vars

(* ------------------------- comparison runs ---------------------------- *)

\* A second device, with its own records and allocator, is given every call
\* the first one is given: the same record, address, length, alignment, flags
\* and table, and dma_free the buffer its own dma_alloc returned.  Its path is
\* "flat" (the inlined functions, under its own debug switch) or "op" (the
\* operations-table functions).

Dev2(path, dbg, mapped, allocated) ==
  [ path |-> path, dbg |-> dbg,
    dma  |-> [dma EXCEPT !.mapped = mapped, !.allocated = allocated],
    maps |-> maps, heap |-> heap, held |-> held, ret |-> 0 ]

\* The operations-table path has a table to forward to only after dma_init
Dev2Ready == dev2.path = "op" => dev2.dma.op \in OpTables

Dev2Map(m, addr, len, flags) ==
  /\ Dev2Ready
  /\ LET r == IF dev2.path = "op"
              THEN dma_op_map(dev2.dbg, dev2.dma, addr, len, flags, dev2.maps[m])
              ELSE flat_dma_map(dev2.dbg, dev2.dma, addr, len, flags,
                                dev2.maps[m])
     IN  dev2' = [dev2 EXCEPT !.dma = r.dma, !.maps[m] = r.map,
                              !.held[m] = IF r.rc = 0 THEN Mapping ELSE @,
                              !.ret = r.rc]

Dev2Unmap(m) ==
  /\ Dev2Ready
  /\ LET r == IF dev2.path = "op"
              THEN dma_op_unmap(dev2.dbg, dev2.dma, dev2.maps[m])
              ELSE flat_dma_unmap(dev2.dbg, dev2.dma, dev2.maps[m])
     IN  dev2' = [dev2 EXCEPT !.dma = r.dma, !.maps[m] = r.map,
                              !.held[m] = IF @.kind = "mapped" THEN Nothing
                                          ELSE @,
                              !.ret = 0]

\* The allocator behaves alike in both runs: where it can return the address
\* addr1 it returned to the first device, it does.
Dev2Alloc(m, len, align, addr1) ==
  /\ Dev2Ready
  /\ \E addr \in malloc_phys(dev2.heap, len, align) :
       /\ addr1 \in malloc_phys(dev2.heap, len, align) => addr = addr1
       /\ LET r == IF dev2.path = "op"
                   THEN dma_op_alloc(dev2.dbg, dev2.dma, dev2.heap, len, align,
                                     dev2.maps[m], addr)
                   ELSE flat_dma_alloc(dev2.dbg, dev2.dma, dev2.heap, len,
                                       align, dev2.maps[m], addr)
          IN  dev2' = [dev2 EXCEPT !.dma = r.dma, !.heap = r.heap,
                                   !.maps[m] = r.map,
                                   !.held[m] = IF r.ret # NULL
                                               THEN Buffer(r.ret, len) ELSE @,
                                   !.ret = r.ret]

Dev2Free(m) ==
  /\ Dev2Ready
  /\ LET r == IF dev2.path = "op"
              THEN dma_op_free(dev2.dbg, dev2.dma, dev2.heap,
                               dev2.held[m].addr, dev2.held[m].len,
                               dev2.maps[m])
              ELSE flat_dma_free(dev2.dbg, dev2.dma, dev2.heap,
                                 dev2.held[m].addr, dev2.held[m].len,
                                 dev2.maps[m])
     IN  dev2' = [dev2 EXCEPT !.dma = r.dma, !.heap = r.heap,
                              !.maps[m] = r.map,
                              !.held[m] = IF @.kind = "alloc" THEN Nothing
                                          ELSE @,
                              !.ret = 0]

Dev2SetMask(mask) ==
  /\ Dev2Ready
  /\ dev2' = [dev2 EXCEPT !.dma = IF dev2.path = "op"
                                  THEN dma_op_set_mask(@, mask)
                                  ELSE flat_dma_set_mask(@, mask),
                          !.ret = 0]

Dev2SetMask64bit ==
  /\ Dev2Ready
  /\ dev2' = [dev2 EXCEPT !.dma = IF dev2.path = "op"
                                  THEN dma_op_set_mask(@, PhysNot(0))
                                  ELSE dma_set_mask_64bit(@),
                          !.ret = 0]

Dev2Init(op) ==
  dev2' = [dev2 EXCEPT !.dma = dma_init(@, op), !.ret = 0]

PairMap == \E m \in Maps, addr \in MapAddrs, len \in Lens, flags \in Flags :
             DmaMap(m, addr, len, flags) /\ Dev2Map(m, addr, len, flags)
PairUnmap == \E m \in Maps : DmaUnmap(m) /\ Dev2Unmap(m)
PairAlloc == \E m \in Maps, len \in Lens, align \in Aligns, addr \in AllocAddrs :
               DmaAlloc(m, len, align, addr) /\ Dev2Alloc(m, len, align, addr)
PairFree == \E m \in Maps : DmaFree(m) /\ Dev2Free(m)
PairSetMask == \E mask \in SetMaskArgs : DmaSetMask(mask) /\ Dev2SetMask(mask)
PairSetMask64bit == DmaSetMask64bit /\ Dev2SetMask64bit
PairInit == \E op \in OpTables : DmaInit(op) /\ Dev2Init(op)

NextPair ==
  PairMap \/ PairUnmap \/ PairAlloc \/ PairFree \/ PairSetMask
    \/ PairSetMask64bit \/ PairInit

\* Two flat runs: the first with debug accounting, the second without it or
\* with counters that start elsewhere
Dev2Starts == {<<FALSE, 0>>, <<TRUE, UIntMod - 1>>}

InitDebugPair ==
  /\ InitDev1
  /\ dma.mask = 0
  /\ \E st \in Dev2Starts : dev2 = Dev2("flat", st[1], st[2], st[2])

SpecDebugPair == InitDebugPair /\ [][NextPair]_vars

\* A flat run and an operations-table run of the same build
InitPathPair ==
  /\ InitDev1
  /\ dma.mask = 0
  /\ dev2 = Dev2("op", DBG_LOG, 0, 0)

SpecPathPair == InitPathPair /\ [][NextPair]_vars

(* ----------------------------- properties ----------------------------- *)

\* device_address & ~address_mask
BeyondMask(addr, mask) == BitAnd(addr, PhysNot(mask))

\* C1: in a build with debug accounting, as long as every dma_unmap/dma_free
\* released an outstanding record, mapped equals the number of mappings
\* outstanding and allocated the number of allocations outstanding (both zero
\* when nothing is outstanding).
C1_CountsMatchOutstanding ==
  misuse = 0 =>
     /\ dma.mapped = Outstanding("mapped")
     /\ dma.allocated = Outstanding("alloc")

C1_Witness ==
  /\ misuse = 0 /\ last.op = "unmap"
  /\ Outstanding("mapped") = 0 /\ Outstanding("alloc") = 1
  /\ dma.mapped = 0 /\ dma.allocated = 1

\* C2: the counters never drop below zero or wrap around, whatever the calls,
\* a release of a record that is not outstanding included: a counter never
\* exceeds the number of records outstanding.
C2_CountersNeverWrap ==
  /\ dma.mapped <= Outstanding("mapped")
  /\ dma.allocated <= Outstanding("alloc")

\* C3: dma_map always succeeds: whatever the mask, the counters, the address,
\* the length and the flags, it returns 0 and the record's device address is
\* the address passed in.
C3_MapAlwaysSucceeds ==
  last.op = "map" =>
     /\ last.ret = 0
     /\ maps[last.m].addr = last.arg

C3_Witness ==
  /\ last.op = "map" /\ last.ret = 0
  /\ dma.allocated > 0
  /\ held[last.m] = Mapping
  /\ BeyondMask(maps[last.m].addr, dma.mask) # 0

C5_AllocCountsOnlySuccess ==
  last.op = "alloc" =>
     /\ last.ret = last.arg
     /\ last.arg = NULL =>
          /\ dma.allocated = last.pre.allocated
          /\ dma.mapped = last.pre.mapped
     /\ last.arg # NULL =>
          /\ maps[last.m].addr = virt_to_phys(last.arg)
          /\ dma.allocated = UIntInc(last.pre.allocated)
          /\ dma.mapped = last.pre.mapped

C5_Witness ==
  /\ misuse = 0
  /\ last.op = "alloc" /\ last.arg = NULL /\ last.ret = NULL
  /\ dma.allocated = 1

\* C6: a dma_free that directly follows a successful dma_alloc, with the
\* buffer address and length of that allocation, puts allocated back to its
\* value before the dma_alloc and gives the buffer back, so that malloc_phys
\* of the same length and alignment succeeds again.
C6_AllocFreeRoundTrip ==
  (last.op = "free" /\ last.pre.rt) =>
     /\ dma.allocated = last.pre.allocated
     /\ Range(last.pre.addr, last.pre.len) \subseteq heap
     /\ malloc_phys(heap, last.pre.len, last.pre.align) # {NULL}

C6_Witness ==
  /\ last.op = "free" /\ last.pre.rt
  /\ last.pre.len = 2
  /\ dma.allocated = 0 /\ heap = HeapAddr

\* C7: dma_set_mask and dma_set_mask_64bit leave the device (op, mask, mapped,
\* allocated), every mapping record and the allocator as they were, whatever
\* the mask.
C7_SetMaskChangesNothing ==
  last.op \in {"set_mask", "set_mask_64bit"} =>
     /\ dma = last.pre.dma
     /\ maps = last.pre.maps
     /\ heap = last.pre.heap

C7_Witness ==
  /\ last.op = "set_mask_64bit"
  /\ dma.mask # PhysNot(0)
  /\ Outstanding("mapped") > 0

\* C10: dma_init sets op to the table passed in and leaves mask, mapped and
\* allocated as they were, also with mappings and allocations outstanding.
C10_InitSetsOnlyOp ==
  last.op = "init" =>
     /\ dma.op = last.arg
     /\ dma.mask = last.pre.mask
     /\ dma.mapped = last.pre.mapped
     /\ dma.allocated = last.pre.allocated

C10_Witness ==
  /\ last.op = "init" /\ dma.op \in OpTables
  /\ dma.mapped > 0 /\ dma.allocated > 0

C9_CountersDoNotDecide ==
  dev2.path = "flat" =>
     /\ dev2.ret = last.ret
     /\ \A m \in Maps : dev2.maps[m].addr = maps[m].addr

C9_Witness ==
  /\ dev2.path = "flat" /\ ~dev2.dbg
  /\ last.op = "alloc" /\ last.ret # NULL /\ dev2.ret = last.ret
  /\ dma.allocated = 2 /\ dev2.dma.allocated = 0

====
